---- MODULE Spec2Model ----
(***************************************************************************)
(* miniBMA/lib/common/log/LogUtils.py                                      *)
(*                                                                         *)
(*   get_seconds_until_next_target_time   (SpecDelay)                      *)
(*   tail                                 (SpecTail)                       *)
(*   backup_and_truncate_file             (Spec)                           *)
(*                                                                         *)
(* A file is a record [exists, content, mode]; content is a sequence of    *)
(* bytes, mode the nine POSIX permission bits as an integer.  Files are    *)
(* opened by their owner, who holds no permission-override privilege.      *)
(***************************************************************************)
EXTENDS Integers, Sequences, FiniteSets, TLC

VARIABLES
    \* ---- backup_and_truncate_file -------------------------------------
    file,           \* the file at file_path
    backup_file,    \* the file at f'{file_path}.1'
    temp_file,      \* the NamedTemporaryFile of the trimming branch
    max_size,       \* argument of the call in progress / last call
    pc,             \* position inside backup_and_truncate_file
    result,         \* outcome of the last call: none, ok, or the error raised
    start_content,  \* content of file_path when the call started
    start_backup,   \* the backup file when the call started
    create_mode,    \* mode a newly created file gets (0o666 & ~umask)
    \* ---- tail ---------------------------------------------------------
    t_file,         \* the file tail is called on
    t_size,         \* its size argument
    t_chunks,       \* the chunks the generator produced
    t_result,       \* none, ok, FileNotFoundError
    \* ---- get_seconds_until_next_target_time ----------------------------
    target_time,    \* the argument: [type, value]
    td,             \* what datetime.datetime.today() returns
    ret             \* [kind: none | int | TypeError | ValueError, val]

rotVars   == <<file, backup_file, temp_file, max_size, pc, result,
               start_content, start_backup, create_mode>>
tailVars  == <<t_file, t_size, t_chunks, t_result>>
delayVars == <<target_time, td, ret>>
vars      == <<rotVars, tailVars, delayVars>>

(***************************************************************************)
(* Bounds                                                                  *)
(***************************************************************************)
MaxLen == 4     \* longest file content, in bytes

(***************************************************************************)
(* Bytes and files                                                         *)
(***************************************************************************)
NL == "\n"
Bytes == {NL, "a"}

RECURSIVE SeqsUpTo(_)
SeqsUpTo(n) ==
    IF n = 0 THEN {<<>>}
    ELSE LET shorter == SeqsUpTo(n - 1)
         IN  shorter \cup {Append(s, b) : s \in {x \in shorter : Len(x) = n - 1}, b \in Bytes}

Contents == SeqsUpTo(MaxLen)
Sizes    == 0 .. MaxLen

S_IREAD  == 256                 \* stat.S_IREAD  = 0o400
CreateModes == {420, 384}       \* 0o644, 0o600: 0o666 masked by the umask
TempMode == 384                 \* tempfile creates 0o600

NoFile == [exists |-> FALSE, content |-> <<>>, mode |-> 0]
NewFile(c, m) == [exists |-> TRUE, content |-> c, mode |-> m]

\* os.path.exists
PathExists(f) == f.exists

\* os.path.getsize
GetSize(f) == Len(f.content)

\* the owner-write bit (0o200), which open(path, 'wb') needs on an existing file
OwnerWritable(mode) == (mode \div 128) % 2 = 1

\* open(dst, 'wb') succeeds: dst is created, or exists and is writable
CanOpenForWrite(dst) == ~dst.exists \/ OwnerWritable(dst.mode)

\* shutil.copyfile(src, dst) once both are open: dst is truncated and filled
\* with src's bytes; an existing dst keeps its mode, a new one gets create_mode
CopyFile(src, dst, newmode) ==
    [exists |-> TRUE, content |-> src.content,
     mode |-> IF dst.exists THEN dst.mode ELSE newmode]

\* os.truncate(path, 0)
TruncateFile_Keep(f) == f
TruncateFile(f) == [f EXCEPT !.content = <<>>]

\* os.chmod(path, mode)
Chmod_OrWrite(f, mode) == [f EXCEPT !.mode = mode + 128]
Chmod(f, mode) == [f EXCEPT !.mode = mode]

(***************************************************************************)
(* tail: the file object's read(1), readline() and line iteration          *)
(***************************************************************************)
\* f.read(1) at offset pos: one byte, or nothing at end of file
Read1(c, pos) == IF pos < Len(c) THEN <<c[pos + 1]>> ELSE <<>>

\* f.readline() at offset pos: through the next newline, or to end of file
RECURSIVE ReadLine(_, _)
ReadLine(c, pos) ==
    IF pos >= Len(c) THEN <<>>
    ELSE IF c[pos + 1] = NL THEN <<NL>>
    ELSE <<c[pos + 1]>> \o ReadLine(c, pos + 1)

\* yield from f at offset pos: readline() until it returns nothing
RECURSIVE YieldFrom(_, _)
YieldFrom(c, pos) ==
    LET line == ReadLine(c, pos)
    IN  IF line = <<>> THEN <<>>
        ELSE <<line>> \o YieldFrom(c, pos + Len(line))

\* tail with the seek one byte late
tail_SeekLate(c, size) ==
    LET file_size == Len(c)
    IN  IF file_size <= size THEN YieldFrom(c, 0)
        ELSE LET p0 == file_size - size
                 b1 == Read1(c, p0)
                 p1 == p0 + Len(b1)
             IN  IF b1 = <<NL>> THEN YieldFrom(c, p1)
                 ELSE LET b2 == Read1(c, p1)
                          p2 == p1 + Len(b2)
                      IN  IF b2 = <<NL>> THEN YieldFrom(c, p2)
                          ELSE YieldFrom(c, p2 + Len(ReadLine(c, p2)))

\* tail without the readline() that drops the partial line
tail_NoSkip(c, size) ==
    LET file_size == Len(c)
    IN  IF file_size <= size THEN YieldFrom(c, 0)
        ELSE LET p0 == file_size - size - 1
                 b1 == Read1(c, p0)
                 p1 == p0 + Len(b1)
             IN  IF b1 = <<NL>> THEN YieldFrom(c, p1)
                 ELSE LET b2 == Read1(c, p1)
                          p2 == p1 + Len(b2)
                      IN  YieldFrom(c, p2)

\* tail(file_path, size) on an existing file with content c
tail(c, size) ==
    LET file_size == Len(c)
    IN  IF file_size <= size THEN YieldFrom(c, 0)
        ELSE LET p0 == file_size - size - 1
                 b1 == Read1(c, p0)
                 p1 == p0 + Len(b1)
             IN  IF b1 = <<NL>> THEN YieldFrom(c, p1)
                 ELSE LET b2 == Read1(c, p1)
                          p2 == p1 + Len(b2)
                      IN  IF b2 = <<NL>> THEN YieldFrom(c, p2)
                          ELSE YieldFrom(c, p2 + Len(ReadLine(c, p2)))

\* the bytes a sequence of chunks holds, in order
RECURSIVE Concat(_)
Concat(chunks) ==
    IF chunks = <<>> THEN <<>> ELSE Head(chunks) \o Concat(Tail(chunks))

(***************************************************************************)
(* backup_and_truncate_file, one action per statement                      *)
(***************************************************************************)
Idle == pc = "idle"

\* the caller's side: the owning process (re)writes the log file
WriteFile ==
    /\ Idle
    /\ \E c \in Contents : file' = NewFile(c, IF file.exists THEN file.mode ELSE create_mode)
    /\ result' = "none"
    /\ start_content' = <<>>
    /\ start_backup' = NoFile
    /\ UNCHANGED <<backup_file, temp_file, max_size, pc, create_mode>>
    /\ UNCHANGED <<tailVars, delayVars>>

\* os.remove(test_file)
RemoveFile ==
    /\ Idle
    /\ file.exists
    /\ file' = NoFile
    /\ result' = "none"
    /\ start_content' = <<>>
    /\ start_backup' = NoFile
    /\ UNCHANGED <<backup_file, temp_file, max_size, pc, create_mode>>
    /\ UNCHANGED <<tailVars, delayVars>>

\* os.remove(f"{test_file}.1")
RemoveBackup ==
    /\ Idle
    /\ backup_file.exists
    /\ backup_file' = NoFile
    /\ result' = "none"
    /\ start_content' = <<>>
    /\ start_backup' = NoFile
    /\ UNCHANGED <<file, temp_file, max_size, pc, create_mode>>
    /\ UNCHANGED <<tailVars, delayVars>>

\* the not-found branch with the backup opened before the check
RaiseNotFound_Touch ==
    /\ result' = "FileNotFoundError"
    /\ pc' = "idle"
    /\ backup_file' = NewFile(<<>>, create_mode)
    /\ UNCHANGED <<file, temp_file>>

\* raise FileNotFoundError
RaiseNotFound ==
    /\ result' = "FileNotFoundError"
    /\ pc' = "idle"
    /\ UNCHANGED <<file, backup_file, temp_file>>

\* backup_and_truncate_file(file_path, max_size): entry and existence check
Call ==
    /\ Idle
    /\ \E m \in Sizes : max_size' = m
    /\ start_content' = file.content
    /\ start_backup' = backup_file
    /\ IF ~PathExists(file)
       THEN RaiseNotFound
       ELSE /\ pc' = "copy"
            /\ result' = "none"
            /\ UNCHANGED <<file, backup_file, temp_file>>
    /\ UNCHANGED create_mode
    /\ UNCHANGED <<tailVars, delayVars>>

\* the copy done as a move: the source is emptied by the copy itself
CopyBackup_Move ==
    /\ pc = "copy"
    /\ IF CanOpenForWrite(backup_file)
       THEN /\ backup_file' = CopyFile(file, backup_file, create_mode)
            /\ file' = TruncateFile(file)
            /\ pc' = "truncate"
            /\ UNCHANGED result
       ELSE /\ result' = "PermissionError"
            /\ pc' = "idle"
            /\ UNCHANGED <<file, backup_file>>
    /\ UNCHANGED <<temp_file, max_size, start_content, start_backup, create_mode>>
    /\ UNCHANGED <<tailVars, delayVars>>

\* shutil.copyfile(file_path, backup_file_path)
CopyBackup ==
    /\ pc = "copy"
    /\ IF CanOpenForWrite(backup_file)
       THEN /\ backup_file' = CopyFile(file, backup_file, create_mode)
            /\ pc' = "truncate"
            /\ UNCHANGED result
       ELSE /\ result' = "PermissionError"
            /\ pc' = "idle"
            /\ UNCHANGED backup_file
    /\ UNCHANGED <<file, temp_file, max_size, start_content, start_backup, create_mode>>
    /\ UNCHANGED <<tailVars, delayVars>>

\* os.truncate(file_path, 0)
Truncate ==
    /\ pc = "truncate"
    /\ file' = TruncateFile(file)
    /\ pc' = "getsize"
    /\ UNCHANGED <<backup_file, temp_file, max_size, result, start_content,
                   start_backup, create_mode>>
    /\ UNCHANGED <<tailVars, delayVars>>

\* backup_file_size <= max_size: chmod and return; otherwise go on to trim
CheckSize ==
    /\ pc = "getsize"
    /\ IF GetSize(backup_file) <= max_size
       THEN /\ backup_file' = Chmod(backup_file, S_IREAD)
            /\ pc' = "idle"
            /\ result' = "ok"
       ELSE /\ pc' = "trim"
            /\ UNCHANGED <<backup_file, result>>
    /\ UNCHANGED <<file, temp_file, max_size, start_content, start_backup, create_mode>>
    /\ UNCHANGED <<tailVars, delayVars>>

\* with NamedTemporaryFile(...): for line in tail(...): temp_file.write(line)
WriteTemp ==
    /\ pc = "trim"
    /\ temp_file' = NewFile(Concat(tail(backup_file.content, max_size)), TempMode)
    /\ pc' = "replace"
    /\ UNCHANGED <<file, backup_file, max_size, result, start_content,
                   start_backup, create_mode>>
    /\ UNCHANGED <<tailVars, delayVars>>

\* flush, copyfile(temp_file.name, backup_file_path), chmod; the with block
\* then deletes the temporary file
ReplaceBackup ==
    /\ pc = "replace"
    /\ IF CanOpenForWrite(backup_file)
       THEN /\ backup_file' = Chmod(CopyFile(temp_file, backup_file, create_mode), S_IREAD)
            /\ result' = "ok"
       ELSE /\ result' = "PermissionError"
            /\ UNCHANGED backup_file
    /\ temp_file' = NoFile
    /\ pc' = "idle"
    /\ UNCHANGED <<file, max_size, start_content, start_backup, create_mode>>
    /\ UNCHANGED <<tailVars, delayVars>>

(***************************************************************************)
(* tail as a call: the existence check, then the generator run to its end  *)
(***************************************************************************)
TailCall ==
    /\ t_result = "none"
    /\ IF ~PathExists(t_file)
       THEN /\ t_result' = "FileNotFoundError"
            /\ t_chunks' = <<>>
       ELSE /\ t_chunks' = tail(t_file.content, t_size)
            /\ t_result' = "ok"
    /\ UNCHANGED <<t_file, t_size>>
    /\ UNCHANGED <<rotVars, delayVars>>

(***************************************************************************)
(* get_seconds_until_next_target_time                                      *)
(*                                                                         *)
(* A str is a sequence of characters; a datetime is a record               *)
(* [day, hour, minute, second, microsecond], day being the ordinal of its  *)
(* calendar date.                                                          *)
(***************************************************************************)
SecondsPerDay   == 86400        \* datetime.timedelta(days=1)
MicrosPerSecond == 1000000      \* resolution of datetime / total_seconds()

Digits == <<"0", "1", "2", "3", "4", "5", "6", "7", "8", "9">>
IsDigit(ch) == \E i \in 1 .. 10 : Digits[i] = ch
DigitVal(ch) == (CHOOSE i \in 1 .. 10 : Digits[i] = ch) - 1

\* the character at index i (from 1), or "" past the end
At(s, i) == IF i >= 1 /\ i <= Len(s) THEN s[i] ELSE ""

\* two characters at i read as a number, when both are digits
TwoDigits(s, i) == IsDigit(At(s, i)) /\ IsDigit(At(s, i + 1))
Val2(s, i) == 10 * DigitVal(At(s, i)) + DigitVal(At(s, i + 1))

\* strptime's directives as regular expressions:
\*   %H  2[0-3]|[0-1]\d|\d     %M  [0-5]\d|\d     %S  6[0-1]|[0-5]\d|\d
\* Each gives the number of characters it takes at i (0: no match).  %H and
\* %M are followed by a literal ':', which decides between the
\* alternatives; %S ends the pattern and takes its first alternative.
MatchH(s, i) ==
    IF TwoDigits(s, i) /\ Val2(s, i) <= 23 /\ At(s, i + 2) = ":" THEN 2
    ELSE IF IsDigit(At(s, i)) /\ At(s, i + 1) = ":" THEN 1
    ELSE 0

MatchM(s, i) ==
    IF TwoDigits(s, i) /\ Val2(s, i) <= 59 /\ At(s, i + 2) = ":" THEN 2
    ELSE IF IsDigit(At(s, i)) /\ At(s, i + 1) = ":" THEN 1
    ELSE 0

MatchS(s, i) ==
    IF TwoDigits(s, i) /\ Val2(s, i) <= 61 THEN 2
    ELSE IF IsDigit(At(s, i)) THEN 1
    ELSE 0

FieldVal(s, i, n) == IF n = 2 THEN Val2(s, i) ELSE DigitVal(At(s, i))

\* datetime.datetime.strptime(s, '%H:%M:%S'): the pattern must match at the
\* start and leave nothing over, and the datetime constructor must accept the
\* fields (second in 0..59); the date defaults to 1900-01-01 (day 0 here)
Strptime(s) ==
    LET lh == MatchH(s, 1)
        im == 1 + lh + 1
        lm == MatchM(s, im)
        is == im + lm + 1
        ls == MatchS(s, is)
        matched == lh > 0 /\ lm > 0 /\ ls > 0
    IN  IF ~matched THEN [ok |-> FALSE]
        ELSE IF is + ls - 1 # Len(s) THEN [ok |-> FALSE]
        ELSE IF FieldVal(s, is, ls) > 59 THEN [ok |-> FALSE]
        ELSE [ok |-> TRUE,
              dt |-> [day |-> 0, hour |-> FieldVal(s, 1, lh),
                      minute |-> FieldVal(s, im, lm),
                      second |-> FieldVal(s, is, ls), microsecond |-> 0]]

\* a datetime's whole seconds on one time line (its microsecond kept apart)
ToSeconds(d) == ((d.day * 24 + d.hour) * 60 + d.minute) * 60 + d.second

\* target_datetime <= td, with the comparison strict
DatetimeLE_Strict(a, b) ==
    \/ ToSeconds(a) < ToSeconds(b)
    \/ ToSeconds(a) = ToSeconds(b) /\ a.microsecond < b.microsecond

\* target_datetime <= td
DatetimeLE(a, b) ==
    \/ ToSeconds(a) < ToSeconds(b)
    \/ ToSeconds(a) = ToSeconds(b) /\ a.microsecond <= b.microsecond

\* target_datetime.replace(year=td.year, month=td.month, day=td.day)
ReplaceDate(d, today) == [d EXCEPT !.day = today.day]

\* d + datetime.timedelta(days=1)
AddOneDay(d) == [d EXCEPT !.day = @ + 1]

\* a - b as a normalised timedelta: 0 <= microseconds < 10^6, the sign in
\* seconds (days and seconds taken together)
Minus(a, b) ==
    LET ds == ToSeconds(a) - ToSeconds(b)
        du == a.microsecond - b.microsecond
    IN  IF du >= 0 THEN [seconds |-> ds, microseconds |-> du]
        ELSE [seconds |-> ds - 1, microseconds |-> du + MicrosPerSecond]

\* int(delta.total_seconds()): the float seconds + microseconds / 10^6,
\* truncated toward zero
IntTotalSeconds(delta) ==
    IF delta.seconds >= 0 \/ delta.microseconds = 0 THEN delta.seconds
    ELSE delta.seconds + 1

\* the function body after the argument is a datetime
SecondsUntil(target_datetime, today) ==
    LET t1 == ReplaceDate(target_datetime, today)
        t2 == IF DatetimeLE(t1, today) THEN AddOneDay(t1) ELSE t1
    IN  IntTotalSeconds(Minus(t2, today))

\* isinstance(target_time, (str, datetime.datetime))
IsStrOrDatetime(t) == t.type \in {"str", "datetime"}

GetSeconds ==
    /\ ret.kind = "none"
    /\ IF ~IsStrOrDatetime(target_time)
       THEN ret' = [kind |-> "TypeError", val |-> 0]
       ELSE IF target_time.type = "str"
       THEN LET p == Strptime(target_time.value)
            IN  IF ~p.ok
                THEN ret' = [kind |-> "ValueError", val |-> 0]
                ELSE ret' = [kind |-> "int", val |-> SecondsUntil(p.dt, td)]
       ELSE ret' = [kind |-> "int", val |-> SecondsUntil(target_time.value, td)]
    /\ UNCHANGED <<target_time, td>>
    /\ UNCHANGED <<rotVars, tailVars>>

\* the inputs the checks draw from
HFields == {<<>>, <<"0">>, <<"0", "0">>, <<"1", "1">>, <<"1", "2">>,
            <<"2", "3">>, <<"2", "4">>, <<"2", "5">>}
MFields == {<<"0">>, <<"0", "0">>, <<"5", "9">>, <<"6", "0">>}
SFields == {<<>>, <<"0">>, <<"0", "0">>, <<"0", "1">>, <<"5", "9">>,
            <<"6", "0">>, <<"6", "1">>}
Suffixes == {<<>>, <<"x">>}

StrTargets ==
    {h \o <<":">> \o m \o <<":">> \o s \o x :
        h \in HFields, m \in MFields, s \in SFields, x \in Suffixes}
    \cup {<<>>, <<"1", "2", ":", "0", "0">>, <<"1", "2", "0", "0", "0", "0">>}

Datetimes(days) ==
    [day : days, hour : {0, 12, 23}, minute : {0, 59}, second : {0, 1, 59},
     microsecond : {0, 500000, 999999}]

Targets ==
    {[type |-> "str", value |-> s] : s \in StrTargets}
    \cup {[type |-> "datetime", value |-> d] : d \in Datetimes({3, 7})}
    \cup {[type |-> ty, value |-> <<>>] : ty \in {"NoneType", "int", "bytes", "date"}}

Todays == Datetimes({7})

RotIdle ==
    /\ file = NoFile
    /\ backup_file = NoFile
    /\ temp_file = NoFile
    /\ max_size = 0
    /\ pc = "idle"
    /\ result = "none"
    /\ start_content = <<>>
    /\ start_backup = NoFile
    /\ create_mode = 420

TailIdle ==
    /\ t_file = NoFile
    /\ t_size = 0
    /\ t_chunks = <<>>
    /\ t_result = "none"

DelayIdle ==
    /\ target_time = [type |-> "NoneType", value |-> <<>>]
    /\ td = [day |-> 7, hour |-> 0, minute |-> 0, second |-> 0, microsecond |-> 0]
    /\ ret = [kind |-> "none", val |-> 0]

(***************************************************************************)
(* Specifications                                                          *)
(***************************************************************************)
Init ==
    /\ file = NoFile
    /\ backup_file = NoFile
    /\ temp_file = NoFile
    /\ max_size = 0
    /\ pc = "idle"
    /\ result = "none"
    /\ start_content = <<>>
    /\ start_backup = NoFile
    /\ create_mode \in CreateModes
    /\ TailIdle
    /\ DelayIdle

Next ==
    \/ WriteFile
    \/ RemoveFile
    \/ RemoveBackup
    \/ Call
    \/ CopyBackup
    \/ Truncate
    \/ CheckSize
    \/ WriteTemp
    \/ ReplaceBackup

Spec == Init /\ [][Next]_vars

InitTail ==
    /\ RotIdle
    /\ DelayIdle
    /\ t_file \in {NoFile} \cup {NewFile(c, 420) : c \in Contents}
    /\ t_size \in Sizes
    /\ t_chunks = <<>>
    /\ t_result = "none"

NextTail == TailCall

SpecTail == InitTail /\ [][NextTail]_vars

InitDelay ==
    /\ RotIdle
    /\ TailIdle
    /\ target_time \in Targets
    /\ td \in Todays
    /\ ret = [kind |-> "none", val |-> 0]

NextDelay == GetSeconds

SpecDelay == InitDelay /\ [][NextDelay]_vars

(***************************************************************************)
(* Claims about backup_and_truncate_file (Spec)                            *)
(***************************************************************************)
Returned == pc = "idle" /\ result = "ok"

\* what the backup is to hold after a rotation of content c under max_size m
Trimmed(c, m) == IF Len(c) <= m THEN c ELSE Concat(tail(c, m))

\* C1: after a successful backup_and_truncate_file(path, max_size) on a file
\* with content C, the live file is empty and <path>.1 holds exactly C when
\* len(C) <= max_size, and otherwise exactly the concatenation of the chunks
\* tail produces for C with size = max_size.
C1_BackupHoldsTrimmedContent ==
    Returned =>
        /\ file.exists
        /\ file.content = <<>>
        /\ backup_file.exists
        /\ backup_file.content = Trimmed(start_content, max_size)

\* C1's case: a rotation that trimmed the backup and kept some of it
C1_Witness ==
    /\ Returned
    /\ Len(start_content) > max_size
    /\ backup_file.content # <<>>
    /\ backup_file.content # start_content

\* C3 as stated: every rotation of an existing file, whatever backup an
\* earlier rotation left (read-only) at <path>.1, succeeds and leaves <path>.1
\* holding the (possibly trimmed) content the live file had at the start of
\* that call.
C3_EveryRotationOverwrites ==
    (pc = "idle" /\ result \notin {"none", "FileNotFoundError"}) =>
        /\ result = "ok"
        /\ backup_file.content = Trimmed(start_content, max_size)

\* C4: after a successful call, on the untrimmed and on the trimmed path, the
\* permission bits of <path>.1 are exactly 0400, and an attempt to open the
\* backup for writing fails.
C4_BackupReadOnly ==
    Returned =>
        /\ backup_file.mode = S_IREAD
        /\ ~CanOpenForWrite(backup_file)

\* C4's case: a successful rotation through the trimming branch
C4_Witness ==
    /\ Returned
    /\ Len(start_content) > max_size
    /\ backup_file.mode = S_IREAD
    /\ ~OwnerWritable(backup_file.mode)

\* C5: backup_and_truncate_file on a path that does not exist raises the
\* not-found error before creating any backup: <path>.1 is neither created
\* nor modified, no temporary file is created, nothing else changes.
C5_NotFoundChangesNothing ==
    result = "FileNotFoundError" =>
        /\ pc = "idle"
        /\ ~file.exists
        /\ backup_file = start_backup
        /\ ~temp_file.exists

\* C5's case: the call on a missing path while an earlier backup exists
C5_Witness ==
    /\ result = "FileNotFoundError"
    /\ backup_file.exists
    /\ backup_file.content # <<>>

\* C9: the live file is emptied only by the truncate step, and at that step
\* <path>.1 holds the complete pre-rotation content; when the copy fails the
\* call ends with the error and the live file is as it was.
C9_TruncateOnlyAfterCopy ==
    [][/\ (pc # "idle" /\ file'.content # file.content) =>
             /\ pc = "truncate"
             /\ backup_file.exists
             /\ backup_file.content = start_content
             /\ file.content = start_content
       /\ (pc = "copy" /\ pc' = "idle") =>
             /\ result' = "PermissionError"
             /\ file' = file
             /\ file'.content = start_content
       /\ (pc = "copy" /\ pc' # "idle") =>
             /\ backup_file'.content = start_content
             /\ file' = file]_vars

\* C9's case: just after the truncation of a non-empty file
C9_Witness ==
    /\ pc = "getsize"
    /\ start_content # <<>>
    /\ file.content = <<>>
    /\ backup_file.content = start_content

\* the length of the last line of c: with its newline when c ends in one,
\* else the unterminated final fragment
LastNewlineUpTo(c, k) ==
    LET at == {i \in 1 .. k : c[i] = NL}
    IN  IF at = {} THEN 0 ELSE CHOOSE i \in at : \A j \in at : j <= i

LastLineLen(c) ==
    IF c = <<>> THEN 0
    ELSE Len(c) - LastNewlineUpTo(c, IF c[Len(c)] = NL THEN Len(c) - 1 ELSE Len(c))

\* C10: when the last line of the file is longer than size, tail produces no
\* chunk at all, and a successful rotation of such a file leaves both the
\* live file and <path>.1 empty.
C10_LongLastLineLosesAll ==
    (Returned /\ LastLineLen(start_content) > max_size) =>
        /\ tail(start_content, max_size) = <<>>
        /\ file.content = <<>>
        /\ backup_file.content = <<>>

\* C10's case: earlier complete lines are lost with the long last one
C10_Witness ==
    /\ Returned
    /\ max_size > 0
    /\ LastLineLen(start_content) > max_size
    /\ LastLineLen(start_content) < Len(start_content)
    /\ backup_file.content = <<>>

(***************************************************************************)
(* Claims about tail (SpecTail)                                            *)
(***************************************************************************)
\* the suffix of c that starts at byte offset start
SuffixFrom(c, start) == SubSeq(c, start + 1, Len(c))

\* offset start is a line boundary of c: byte 0, or right after a newline
AlignedAt(c, start) == start = 0 \/ c[start] = NL

\* the lengths of the suffixes of c that are no longer than size and aligned
AlignedSuffixLens(c, size) ==
    {n \in 0 .. Len(c) : n <= size /\ AlignedAt(c, Len(c) - n)}

\* every chunk is one whole line of c: it starts at a line boundary, holds no
\* newline before its last byte, and ends in a newline or at the end of c
RECURSIVE WholeLines(_, _, _)
WholeLines(c, chunks, start) ==
    \/ chunks = <<>>
    \/ LET ch == Head(chunks)
           end == start + Len(ch)
       IN  /\ ch # <<>>
           /\ end <= Len(c)
           /\ ch = SubSeq(c, start + 1, end)
           /\ AlignedAt(c, start)
           /\ \A i \in 1 .. Len(ch) - 1 : ch[i] # NL
           /\ (ch[Len(ch)] = NL \/ end = Len(c))
           /\ WholeLines(c, Tail(chunks), end)

\* the output is the longest aligned suffix of at most size bytes
IsLongestAlignedSuffix(c, size, chunks) ==
    LET out == Concat(chunks)
        n == Len(out)
    IN  /\ n <= Len(c)
        /\ out = SuffixFrom(c, Len(c) - n)
        /\ n \in AlignedSuffixLens(c, size)
        /\ \A k \in AlignedSuffixLens(c, size) : k <= n
        /\ WholeLines(c, chunks, Len(c) - n)
        /\ (Len(c) <= size => out = c)

\* C2 as stated: for every existing file and size >= 0 the concatenation of
\* the chunks is the longest suffix of C of length at most size that starts
\* at byte 0 or right after a newline; every chunk is one whole line; when
\* len(C) <= size the output is all of C.
C2_LongestAlignedSuffix ==
    t_result = "ok" => IsLongestAlignedSuffix(t_file.content, t_size, t_chunks)

\* C2 amended: the same, except that when C has no suffix of length at most
\* size that starts at a line boundary (not even the empty one: C does not
\* end in a newline and its last line is longer than size) tail produces
\* nothing.
C2_LongestAlignedSuffixOrNothing ==
    t_result = "ok" =>
        IF AlignedSuffixLens(t_file.content, t_size) = {}
        THEN t_chunks = <<>>
        ELSE IsLongestAlignedSuffix(t_file.content, t_size, t_chunks)

\* C2's case: the cut fell inside a line, which was dropped, and lines follow
C2_Witness ==
    /\ t_result = "ok"
    /\ Len(t_file.content) > t_size
    /\ t_chunks # <<>>
    /\ Len(Concat(t_chunks)) + 1 < t_size

(***************************************************************************)
(* Claims about get_seconds_until_next_target_time (SpecDelay)             *)
(***************************************************************************)
\* a string of the form HH:MM:SS with every field in range
IsHHMMSS(s) ==
    /\ Len(s) = 8
    /\ \A i \in {1, 2, 4, 5, 7, 8} : IsDigit(s[i])
    /\ s[3] = ":" /\ s[6] = ":"
    /\ Val2(s, 1) <= 23 /\ Val2(s, 4) <= 59 /\ Val2(s, 7) <= 59

\* a valid argument: an HH:MM:SS string or a date-time value
ValidTarget ==
    \/ target_time.type = "datetime"
    \/ target_time.type = "str" /\ IsHHMMSS(target_time.value)

\* the time of day a valid argument names
TargetOfDay ==
    IF target_time.type = "str" THEN Strptime(target_time.value).dt
    ELSE target_time.value

SecondOfDay(d) == (d.hour * 60 + d.minute) * 60 + d.second

\* C6 as stated: for every valid target and every current moment the result
\* r is an integer with 0 < r <= 86400; it is never 0.
C6_ResultInRange ==
    (ValidTarget /\ ret.kind # "none") =>
        (ret.kind = "int" /\ 0 < ret.val /\ ret.val <= SecondsPerDay)

\* C7 as stated: 86400 when the target equals the current time; d when the
\* target is after the current time of day by d seconds; 86400 - d when it
\* is before it by d seconds (d = ds seconds + du microseconds, so an integer
\* result equals d only when du = 0).
C7_ExactDifference ==
    (ValidTarget /\ ret.kind # "none") =>
        LET ds == SecondOfDay(TargetOfDay) - SecondOfDay(td)
            du == TargetOfDay.microsecond - td.microsecond
            same == ds = 0 /\ du = 0
            after == ds > 0 \/ (ds = 0 /\ du > 0)
            before == ds < 0 \/ (ds = 0 /\ du < 0)
        IN  /\ ret.kind = "int"
            /\ same => ret.val = SecondsPerDay
            /\ after => (du = 0 /\ ret.val = ds)
            /\ before => (du = 0 /\ ret.val = SecondsPerDay + ds)

\* C7 amended: 86400 when the target equals the current time; floor(d) when
\* the target is after the current time of day by d seconds; floor(86400 - d)
\* when it is before it by d seconds.  These are d and 86400 - d exactly when
\* d is a whole number of seconds.
C7_FloorOfDifference ==
    (ValidTarget /\ ret.kind # "none") =>
        LET ds == SecondOfDay(TargetOfDay) - SecondOfDay(td)
            du == TargetOfDay.microsecond - td.microsecond
            same == ds = 0 /\ du = 0
            after == ds > 0 \/ (ds = 0 /\ du > 0)
            before == ds < 0 \/ (ds = 0 /\ du < 0)
            floorDiff == IF du >= 0 THEN ds ELSE ds - 1
        IN  /\ ret.kind = "int"
            /\ same => ret.val = SecondsPerDay
            /\ after => ret.val = floorDiff
            /\ before => ret.val = SecondsPerDay + floorDiff
            /\ (after /\ du = 0) => ret.val = ds
            /\ (before /\ du = 0) => ret.val = SecondsPerDay + ds

\* C7's case: a target earlier in the day, by a fraction of a second more
\* than a whole number of seconds
C7_Witness ==
    /\ ValidTarget
    /\ ret.kind = "int"
    /\ SecondOfDay(TargetOfDay) < SecondOfDay(td)
    /\ TargetOfDay.microsecond < td.microsecond
    /\ ret.val < SecondsPerDay

\* C8 as stated: an argument that is neither a string nor a date-time raises
\* the type error; a string with an out-of-range field or otherwise not of
\* the form HH:MM:SS raises the format error; neither returns a number.
C8_BadInputClassified ==
    ret.kind # "none" =>
        /\ target_time.type \notin {"str", "datetime"} => ret.kind = "TypeError"
        /\ (target_time.type = "str" /\ ~IsHHMMSS(target_time.value)) =>
               ret.kind = "ValueError"

====
